---- MODULE Spec2Model ----
(***************************************************************************)
(* Model of the QuizMaster background jobs (src/tasks.py): the Celery      *)
(* tasks send_daily_reminders, send_monthly_reports and the CSV exports,   *)
(* together with the channel function send_gchat_webhook, over the tables  *)
(* of src/models.py.                                                       *)
(*                                                                         *)
(* Conventions.  A nullable column is a sequence of length at most one:    *)
(* << >> is None/NULL and <<v>> is the value v.  A date is <<y, m, d>>, a  *)
(* datetime is <<y, m, d, t>> with t the instant within the day.  A        *)
(* Python float that the code obtains by dividing two integers is kept as  *)
(* the exact fraction <<numerator, denominator>>.                          *)
(***************************************************************************)
EXTENDS Integers, Sequences, FiniteSets, TLC

VARIABLES
    \* ---- the data store (src/models.py) and the deployment ----
    users,            \* rows of User
    quizzes,          \* rows of Quiz
    scores,           \* rows of Score
    prefs,            \* rows of UserPreference
    config,           \* app.config: the Twilio credentials
    now,              \* the clock: [date |-> <<y,m,d>>, hour |-> 0..23]
    \* ---- one task invocation ----
    task,             \* which task this behaviour runs ("none" before it starts)
    pc,               \* "idle", "loop", "returned", "raised"
    todo,             \* the users the task's for-loop has not reached yet
    upcoming_quizzes, \* send_daily_reminders: the query result of lines 375-378
    reminders_sent,   \* send_daily_reminders: the local counter
    result,           \* the value the task returned (a count, or a descriptor)
    \* ---- what the task did to the outside world ----
    outcome,          \* per user id: what the loop body did for that user
    outbox,           \* messages handed to a transport: records [user, channel]
    posts,            \* number of HTTP POSTs made by send_gchat_webhook
    webhook_call,     \* the last call of send_gchat_webhook (None before any)
    sms_call,         \* the last call of send_sms_notification (None before any)
    error,            \* the exception the task raised to its runner, if any
    reports,          \* send_monthly_reports: the reports rendered and mailed
    files,            \* the files the export tasks wrote under /tmp
    task_state,       \* what the task stored with self.update_state
    output,           \* the rows an export task has written to its StringIO
    args              \* the arguments of the call: a record, << >> for none

vars == << users, quizzes, scores, prefs, config, now, task, pc, todo,
           upcoming_quizzes, reminders_sent, result, outcome, outbox, posts,
           webhook_call, sms_call, error, reports, files, task_state, output, args >>

dbvars == << users, quizzes, scores, prefs, config, now >>

\* what send_daily_reminders never touches
notreminders == << reports, files, task_state, output, args >>

\* what send_monthly_reports and the exports never touch
notreports == << upcoming_quizzes, reminders_sent, posts, webhook_call, sms_call >>

\* what only the exports touch
exportvars == << files, task_state, output, args >>

-----------------------------------------------------------------------------
(* Bounds of the model *)

NUsers == 2
NQuizzes == 6

(* Program constants *)

REMINDER_LIMIT == 5
DEFAULT_REMINDER_TIME == 18
INACTIVE_DAYS == 3
HTTP_OK == 200

-----------------------------------------------------------------------------
(* Python and SQL primitives *)

None == << >>

\* Python truthiness of a nullable integer column: None and 0 are falsy.
TruthyInt(x) == x # None /\ x[1] # 0

\* Python truthiness of a nullable string column: None and "" are falsy.
TruthyStr(x) == x # None /\ x[1] # ""

\* a < b on dates <<y, m, d>>
DateLT(a, b) ==
    \/ a[1] < b[1]
    \/ a[1] = b[1] /\ a[2] < b[2]
    \/ a[1] = b[1] /\ a[2] = b[2] /\ a[3] < b[3]

DateGE(a, b) == ~DateLT(a, b)

IsLeap(y) == (y % 4 = 0 /\ y % 100 # 0) \/ y % 400 = 0

DaysInMonth(y, m) ==
    IF m = 2 THEN (IF IsLeap(y) THEN 29 ELSE 28)
    ELSE IF m \in {4, 6, 9, 11} THEN 30 ELSE 31

\* d - timedelta(days=n)
RECURSIVE MinusDays(_, _)
MinusDays(d, n) ==
    IF n = 0 THEN d
    ELSE IF d[3] > 1 THEN MinusDays(<<d[1], d[2], d[3] - 1>>, n - 1)
    ELSE IF d[2] > 1
         THEN MinusDays(<<d[1], d[2] - 1, DaysInMonth(d[1], d[2] - 1)>>, n - 1)
         ELSE MinusDays(<<d[1] - 1, 12, 31>>, n - 1)

\* d + timedelta(days=n)
RECURSIVE PlusDays(_, _)
PlusDays(d, n) ==
    IF n = 0 THEN d
    ELSE IF d[3] < DaysInMonth(d[1], d[2])
         THEN PlusDays(<<d[1], d[2], d[3] + 1>>, n - 1)
    ELSE IF d[2] < 12 THEN PlusDays(<<d[1], d[2] + 1, 1>>, n - 1)
         ELSE PlusDays(<<d[1] + 1, 1, 1>>, n - 1)

Min(a, b) == IF a <= b THEN a ELSE b

\* The rows of a set, as a sequence in ascending primary key (Query.all()).
RECURSIVE ById(_)
ById(rows) ==
    IF rows = {} THEN << >>
    ELSE LET r == CHOOSE x \in rows : \A y \in rows : x.id <= y.id
         IN  <<r>> \o ById(rows \ {r})

-----------------------------------------------------------------------------
(* The rows of the tables (src/models.py) *)

ADMIN_USERNAME == "admin@quizmaster.com"

User(id, username, role, last_login) ==
    [id |-> id, username |-> username, role |-> role, last_login |-> last_login]

Quiz(id, title, date_of_quiz, is_active) ==
    [id |-> id, title |-> title, date_of_quiz |-> date_of_quiz,
     is_active |-> is_active]

Score(id, quiz_id, user_id, score, total_questions, attempt_date) ==
    [id |-> id, quiz_id |-> quiz_id, user_id |-> user_id, score |-> score,
     total_questions |-> total_questions, attempt_date |-> attempt_date]

UserPreference(user_id, p) ==
    [user_id |-> user_id,
     notification_type |-> p.notification_type,
     reminder_time |-> p.reminder_time,
     webhook_url |-> p.webhook_url,
     phone_number |-> p.phone_number,
     receive_daily_reminders |-> p.receive_daily_reminders,
     receive_monthly_reports |-> p.receive_monthly_reports]

NextId(rows) ==
    IF rows = {} THEN 1
    ELSE (CHOOSE x \in rows : \A y \in rows : y.id <= x.id).id + 1

\* app.create_app: db.create_all() and the admin row when there is none.
\* the row lines 62-73 of src/app.py insert
AdminRow == {User(1, ADMIN_USERNAME, "admin", None)}

create_app(U) ==
    IF \E u \in U : u.username = ADMIN_USERNAME THEN U
    ELSE U \cup {User(NextId(U), ADMIN_USERNAME, "admin", None)}

\* an exception: its class and the parts of its message
Exception(type, message) == [type |-> type, message |-> message]

-----------------------------------------------------------------------------
(* send_gchat_webhook (src/tasks.py 281-318).  `response` is what
   requests.post does: <<status>> when it returns a response, None when it
   raises.  The value is [ok, posts, payload]: what the function returns, how
   many POSTs it made and what it posted.  The function has no raising path:
   the except clause logs through current_app, which the calling task's
   application context provides, and returns False. *)

\* a nullable list is truthy when it is a list with an element
TruthySeq(x) == x # None /\ x[1] # << >>

\* lines 298-306
Payload(message_text, title, sections) ==
    IF TruthyStr(title) \/ TruthySeq(sections)
    THEN [cards |-> << [header |-> [title |-> IF TruthyStr(title) THEN title[1]
                                              ELSE "Quiz Master Notification"],
                        sections |-> IF TruthySeq(sections) THEN sections[1]
                                     ELSE << >>] >>]
    ELSE [text |-> message_text]

\* send_gchat_webhook taking every 2xx status for a success
send_gchat_webhook_Any2xx(webhook_url, message_text, title, sections, response) ==
    IF ~TruthyStr(webhook_url) THEN [ok |-> FALSE, posts |-> 0, payload |-> None]
    ELSE [ok |-> response # None /\ response[1] >= 200 /\ response[1] < 300,
          posts |-> 1, payload |-> <<Payload(message_text, title, sections)>>]

send_gchat_webhook(webhook_url, message_text, title, sections, response) ==
    IF ~TruthyStr(webhook_url) THEN [ok |-> FALSE, posts |-> 0, payload |-> None]
    ELSE IF response = None
         THEN [ok |-> FALSE, posts |-> 1,
               payload |-> <<Payload(message_text, title, sections)>>]
         ELSE [ok |-> (response[1] = HTTP_OK), posts |-> 1,
               payload |-> <<Payload(message_text, title, sections)>>]

(* send_sms_notification (src/tasks.py 321-359).  `provider` is what the
   Twilio client does inside the try block: "sent" when
   client.messages.create returns, "create_raises" when it raises,
   "client_raises" when the import or the Client constructor raises before
   any send.  The value is [ok, sends]: what the function returns and how
   many sends it attempted.  Every exception is caught at line 357. *)

Credentials(cfg) ==
    /\ TruthyStr(cfg.TWILIO_ACCOUNT_SID)
    /\ TruthyStr(cfg.TWILIO_AUTH_TOKEN)
    /\ TruthyStr(cfg.TWILIO_PHONE_NUMBER)

\* send_sms_notification asking for the account id alone
send_sms_notification_SidOnly(cfg, provider) ==
    IF ~TruthyStr(cfg.TWILIO_ACCOUNT_SID) THEN [ok |-> FALSE, sends |-> 0]
    ELSE [ok |-> (provider = "sent"),
          sends |-> IF provider = "client_raises" THEN 0 ELSE 1]

send_sms_notification(cfg, provider) ==
    IF ~Credentials(cfg) THEN [ok |-> FALSE, sends |-> 0]
    ELSE [ok |-> (provider = "sent"),
          sends |-> IF provider = "client_raises" THEN 0 ELSE 1]

-----------------------------------------------------------------------------
(* send_daily_reminders (src/tasks.py 362-489): the queries *)

\* UpcomingQuizzes without the limit(5) of line 378
UpcomingQuizzes_NoLimit(Q, today) ==
    {{q \in Q : q.is_active /\ DateGE(q.date_of_quiz, today)}}

\* lines 375-378: the active quizzes dated today or later, the first
\* REMINDER_LIMIT of them by date.  ORDER BY date_of_quiz leaves the order of
\* quizzes of one date to the database, so every cut that respects the dates
\* is a possible result.
UpcomingQuizzes(Q, today) ==
    LET eligible == {q \in Q : q.is_active /\ DateGE(q.date_of_quiz, today)}
        n == Min(REMINDER_LIMIT, Cardinality(eligible))
    IN  {S \in SUBSET eligible :
            /\ Cardinality(S) = n
            /\ \A q \in S : \A r \in eligible \ S :
                  ~DateLT(r.date_of_quiz, q.date_of_quiz)}

\* lines 381-385: role 'user' and never logged in, or not since the cutoff.
\* last_login is compared at the granularity of days.
inactive_users(U, clock) ==
    LET recent_date == MinusDays(clock.date, INACTIVE_DAYS)
    IN  {u \in U : /\ u.role = "user"
                   /\ \/ u.last_login = None
                      \/ DateLT(u.last_login[1], recent_date)}

\* lines 393-394
user_quiz_ids(u) == {s.quiz_id : s \in {x \in scores : x.user_id = u.id}}

\* new_quizzes with the membership test of line 397 inverted
new_quizzes_Inverted(u) == {q \in upcoming_quizzes : q.id \in user_quiz_ids(u)}

\* line 397
new_quizzes(u) == {q \in upcoming_quizzes : q.id \notin user_quiz_ids(u)}

\* line 403: UserPreference.query.filter_by(user_id=user.id).first(),
\* None or <<row>>
user_pref(u) ==
    IF \E p \in prefs : p.user_id = u.id
    THEN << CHOOSE p \in prefs : p.user_id = u.id >>
    ELSE None

\* lines 406, 409-410
notification_type(u) ==
    IF user_pref(u) = None THEN "email"
    ELSE IF TruthyStr(user_pref(u)[1].notification_type)
         THEN user_pref(u)[1].notification_type[1]
         ELSE "email"

\* lines 407, 409, 411
reminder_time(u) ==
    IF user_pref(u) = None THEN DEFAULT_REMINDER_TIME
    ELSE IF TruthyInt(user_pref(u)[1].reminder_time)
         THEN user_pref(u)[1].reminder_time[1]
         ELSE DEFAULT_REMINDER_TIME

\* lines 413-416: the loop body goes on to the dispatch
RightHour(u) == now.hour = reminder_time(u)

\* line 443
CountAfterEmail(n) == n + 1

\* CountAfterDelivery without the `if success` of lines 472 and 482
CountAfterDelivery_Unchecked(n, success) == n + 1

\* lines 472-473 and 482-483
CountAfterDelivery(n, success) == IF success THEN n + 1 ELSE n

-----------------------------------------------------------------------------
(* The databases the reminder task is checked on *)

Today == <<2024, 6, 15>>
Hours == {0, 17, DEFAULT_REMINDER_TIME}

WEBHOOK == "https://chat.googleapis.com/v1/spaces/x"
PHONE == "+15550100"

Pref(t, rt, wh, ph, daily) ==
    [notification_type |-> t, reminder_time |-> rt, webhook_url |-> wh,
     phone_number |-> ph, receive_daily_reminders |-> daily,
     receive_monthly_reports |-> TRUE]

\* the channels, with and without their destination, at the default hour
ChannelPrefs ==
    {Pref(None, <<DEFAULT_REMINDER_TIME>>, None, None, TRUE)}
    \cup {Pref(<<"gchat">>, <<DEFAULT_REMINDER_TIME>>, wh, None, TRUE) :
        wh \in {None, <<"">>, <<WEBHOOK>>}}
    \cup {Pref(<<"sms">>, <<DEFAULT_REMINDER_TIME>>, None, ph, TRUE) :
        ph \in {None, <<PHONE>>}}

\* the stored reminder hours: NULL, midnight and an afternoon hour
HourPrefs ==
    {Pref(<<"email">>, rt, None, None, TRUE) : rt \in {None, <<0>>, <<17>>}}

\* a user who opted out of the daily reminder
OptOutPrefs == {Pref(<<"email">>, <<DEFAULT_REMINDER_TIME>>, None, None, FALSE)}

Profile(l, p, a) == [last_login |-> l, pref |-> p, attempted |-> a]

\* what one user's rows can be: the last login, the preference row if any,
\* and the quizzes the user has a Score for
UserProfiles ==
    {Profile(None, <<p>>, {}) : p \in ChannelPrefs \cup HourPrefs \cup OptOutPrefs}
    \cup {Profile(l, None, {}) :
            l \in {None, <<MinusDays(Today, 5)>>, <<MinusDays(Today, 1)>>}}
    \cup {Profile(None, None, a) : a \in {1..REMINDER_LIMIT, 1..NQuizzes}}
    \cup {Profile(None, <<Pref(<<"sms">>, <<DEFAULT_REMINDER_TIME>>, None,
                               <<PHONE>>, TRUE)>>, 1..NQuizzes)}

Title(q) == IF q % 2 = 1 THEN "Algebra" ELSE "Geometry"

\* the Quiz tables: one quiz a day from today on, the later ones on one day;
\* the same with a past quiz and a deactivated one
QuizTables ==
    { {Quiz(q, Title(q), PlusDays(Today, Min(q, REMINDER_LIMIT) - 1), TRUE) :
          q \in 1..NQuizzes},
      {Quiz(q, Title(q),
            IF q = 1 THEN MinusDays(Today, 1)
                     ELSE PlusDays(Today, Min(q, REMINDER_LIMIT) - 1),
            q # 2) : q \in 1..NQuizzes} }

\* app.config as src/config.py leaves it (no Twilio key), and with the keys
SID == "ACxxxxxxxx"
TwilioConfigs ==
    { [TWILIO_ACCOUNT_SID |-> c, TWILIO_AUTH_TOKEN |-> c,
       TWILIO_PHONE_NUMBER |-> c] : c \in {None, <<SID>>} }

Noon == <<2024, 6, 1, 12>>

UserId(k) == k + 1

TaskIdle ==
    /\ task = "none"
    /\ pc = "idle"
    /\ todo = << >>
    /\ upcoming_quizzes = {}
    /\ reminders_sent = 0
    /\ result = None
    /\ outcome = [u \in {x.id : x \in users} |-> "none"]
    /\ outbox = {}
    /\ posts = 0
    /\ webhook_call = None
    /\ sms_call = None
    /\ error = None
    /\ reports = {}
    /\ files = {}
    /\ task_state = None
    /\ output = << >>

InitRemindersWith(admin) ==
    /\ \E prof \in [1..NUsers -> UserProfiles] :
          /\ users = admin
                \cup {User(UserId(k), "user@example.com", "user",
                           prof[k].last_login) : k \in 1..NUsers}
          /\ prefs = {UserPreference(UserId(k), prof[k].pref[1]) :
                         k \in {j \in 1..NUsers : prof[j].pref # None}}
          /\ scores = UNION {
                {Score((k - 1) * NQuizzes + q, q, UserId(k), 8, 10, Noon) :
                    q \in prof[k].attempted} : k \in 1..NUsers}
    /\ quizzes \in QuizTables
    /\ config \in TwilioConfigs
    /\ now \in [date : {Today}, hour : Hours]
    /\ args = << >>
    /\ TaskIdle

InitReminders == InitRemindersWith(AdminRow)

-----------------------------------------------------------------------------
(* send_daily_reminders: the task *)

Responses == {None, <<HTTP_OK>>, <<204>>, <<500>>}

\* what the Twilio client can do inside the try block of lines 340-359
Provider == {"sent", "create_raises", "client_raises"}

Done(u, what) ==
    /\ outcome' = [outcome EXCEPT ![u.id] = what]
    /\ todo' = Tail(todo)

InLoop(t) == task = t /\ pc = "loop" /\ todo # << >>

\* lines 364-387: the context, the two queries and the counter
StartDailyReminders ==
    /\ task = "none" /\ pc = "idle"
    /\ users' = create_app(users)
    /\ upcoming_quizzes' \in UpcomingQuizzes(quizzes, now.date)
    /\ todo' = ById(inactive_users(users', now))
    /\ reminders_sent' = 0
    /\ task' = "send_daily_reminders"
    /\ pc' = "loop"
    /\ outcome' = [u \in {x.id : x \in users'} |-> "none"]
    /\ UNCHANGED << quizzes, scores, prefs, config, now, result, outbox,
                    posts, webhook_call, sms_call, notreminders, error >>

\* lines 399-400
SkipNoNewQuizzes ==
    /\ InLoop("send_daily_reminders")
    /\ LET u == Head(todo) IN
          /\ new_quizzes(u) = {}
          /\ Done(u, "no_new_quizzes")
    /\ UNCHANGED << dbvars, task, pc, upcoming_quizzes, reminders_sent, result,
                    outbox, posts, webhook_call, sms_call, notreminders, error >>

\* lines 413-416
SkipWrongHour ==
    /\ InLoop("send_daily_reminders")
    /\ LET u == Head(todo) IN
          /\ new_quizzes(u) # {}
          /\ ~RightHour(u)
          /\ Done(u, "wrong_hour")
    /\ UNCHANGED << dbvars, task, pc, upcoming_quizzes, reminders_sent, result,
                    outbox, posts, webhook_call, sms_call, notreminders, error >>

\* lines 426-443: mail.send either hands the message to the SMTP server or
\* raises; nothing in the loop catches it, the handler of lines 487-489
\* re-raises.
DispatchEmail ==
    /\ InLoop("send_daily_reminders")
    /\ LET u == Head(todo) IN
          /\ new_quizzes(u) # {}
          /\ RightHour(u)
          /\ notification_type(u) = "email"
          /\ \/ /\ outbox' = outbox \cup {[user |-> u.id, channel |-> "email"]}
                /\ reminders_sent' = CountAfterEmail(reminders_sent)
                /\ Done(u, "email")
                /\ UNCHANGED << pc, error >>
             \/ /\ outcome' = [outcome EXCEPT ![u.id] = "email_raised"]
                /\ pc' = "raised"
                /\ error' = <<Exception("SMTPException", << >>)>>
                /\ UNCHANGED << outbox, reminders_sent, todo >>
    /\ UNCHANGED << dbvars, task, upcoming_quizzes, result, posts, webhook_call, sms_call,
                    notreminders >>

\* lines 445-473
DispatchGchat ==
    /\ InLoop("send_daily_reminders")
    /\ LET u == Head(todo) IN
          /\ new_quizzes(u) # {}
          /\ RightHour(u)
          /\ notification_type(u) = "gchat"
          /\ TruthyStr(user_pref(u)[1].webhook_url)
          /\ \E response \in Responses :
                LET r == send_gchat_webhook(
                             user_pref(u)[1].webhook_url,
                             <<"Hi", u.id, Cardinality(new_quizzes(u))>>,
                             <<"Quiz Master Daily Reminder">>,
                             << <<"New Quizzes Available", "Go to Quiz Master">> >>,
                             response)
                IN  /\ posts' = posts + r.posts
                    /\ webhook_call' = << [webhook_url |-> user_pref(u)[1].webhook_url,
                                           payload |-> r.payload,
                                           response |-> response,
                                           returned |-> r.ok] >>
                    /\ outbox' = IF r.ok
                                 THEN outbox \cup {[user |-> u.id, channel |-> "gchat"]}
                                 ELSE outbox
                    /\ reminders_sent' = CountAfterDelivery(reminders_sent, r.ok)
                    /\ Done(u, IF r.ok THEN "gchat" ELSE "gchat_failed")
    /\ UNCHANGED << dbvars, task, pc, upcoming_quizzes, result, sms_call,
                    notreminders, error >>

\* lines 475-483
DispatchSms ==
    /\ InLoop("send_daily_reminders")
    /\ LET u == Head(todo) IN
          /\ new_quizzes(u) # {}
          /\ RightHour(u)
          /\ notification_type(u) = "sms"
          /\ TruthyStr(user_pref(u)[1].phone_number)
          /\ \E provider \in Provider :
                LET r == send_sms_notification(config, provider)
                IN  /\ sms_call' = << [to |-> user_pref(u)[1].phone_number,
                                       provider |-> IF Credentials(config)
                                                    THEN <<provider>> ELSE None,
                                       sends |-> r.sends,
                                       returned |-> r.ok] >>
                    /\ outbox' = IF r.ok
                                 THEN outbox \cup {[user |-> u.id, channel |-> "sms"]}
                                 ELSE outbox
                    /\ reminders_sent' = CountAfterDelivery(reminders_sent, r.ok)
                    /\ Done(u, IF r.ok THEN "sms" ELSE "sms_failed")
    /\ UNCHANGED << dbvars, task, pc, upcoming_quizzes, result, posts,
                    webhook_call, notreminders, error >>

\* a loop body that mails the user when the channel's destination is missing
NoDispatch_EmailFallback ==
    /\ InLoop("send_daily_reminders")
    /\ LET u == Head(todo) IN
          /\ new_quizzes(u) # {}
          /\ RightHour(u)
          /\ notification_type(u) # "email"
          /\ ~(notification_type(u) = "gchat"
               /\ TruthyStr(user_pref(u)[1].webhook_url))
          /\ ~(notification_type(u) = "sms"
               /\ TruthyStr(user_pref(u)[1].phone_number))
          /\ outbox' = outbox \cup {[user |-> u.id, channel |-> "email"]}
          /\ reminders_sent' = CountAfterEmail(reminders_sent)
          /\ Done(u, "email")
    /\ UNCHANGED << dbvars, task, pc, upcoming_quizzes, result,
                    posts, webhook_call, sms_call, notreminders, error >>

\* lines 426, 445, 475: no branch of the if/elif chain is taken
NoDispatch ==
    /\ InLoop("send_daily_reminders")
    /\ LET u == Head(todo) IN
          /\ new_quizzes(u) # {}
          /\ RightHour(u)
          /\ notification_type(u) # "email"
          /\ ~(notification_type(u) = "gchat"
               /\ TruthyStr(user_pref(u)[1].webhook_url))
          /\ ~(notification_type(u) = "sms"
               /\ TruthyStr(user_pref(u)[1].phone_number))
          /\ Done(u, "no_destination")
    /\ UNCHANGED << dbvars, task, pc, upcoming_quizzes, reminders_sent, result,
                    outbox, posts, webhook_call, sms_call, notreminders, error >>

\* line 485
ReturnDailyReminders ==
    /\ task = "send_daily_reminders" /\ pc = "loop" /\ todo = << >>
    /\ result' = <<reminders_sent>>
    /\ pc' = "returned"
    /\ UNCHANGED << dbvars, task, todo, upcoming_quizzes, reminders_sent,
                    outcome, outbox, posts, webhook_call, sms_call, notreminders, error >>

NextReminders ==
    \/ StartDailyReminders
    \/ SkipNoNewQuizzes
    \/ SkipWrongHour
    \/ DispatchEmail
    \/ DispatchGchat
    \/ DispatchSms
    \/ NoDispatch
    \/ ReturnDailyReminders

SpecReminders == InitReminders /\ [][NextReminders]_vars

-----------------------------------------------------------------------------
(* Percentages (src/models.py 172, src/tasks.py 244, 529, 538) *)

\* Python's a / b * 100 as an exact fraction; a zero denominator stands for
\* the ZeroDivisionError that the division raises.
PyRatio(a, b) == <<a * 100, b>>

Raises(f) == f[2] = 0

\* (score / total_questions * 100) if total_questions > 0 else 0
Percentage(score, total_questions) ==
    IF total_questions > 0 THEN PyRatio(score, total_questions) ELSE <<0, 1>>

\* equality and order of fractions with positive denominators
FracEq(f, g) == f[1] * g[2] = g[1] * f[2]
FracLT(f, g) == f[1] * g[2] < g[1] * f[2]
FracAdd(f, g) == <<f[1] * g[2] + g[1] * f[2], f[2] * g[2]>>

-----------------------------------------------------------------------------
(* send_monthly_reports (src/tasks.py 492-596): the computations *)

\* a < b on datetimes <<y, m, d, t>>
DateTimeLT(a, b) ==
    \/ DateLT(<<a[1], a[2], a[3]>>, <<b[1], b[2], b[3]>>)
    \/ <<a[1], a[2], a[3]>> = <<b[1], b[2], b[3]>> /\ a[4] < b[4]

\* a date bound to a DateTime column: midnight of that day
Midnight(d) == <<d[1], d[2], d[3], 0>>

\* line 504
FirstDay(today) == <<today[1], today[2], 1>>

\* LastMonth without the January branch of lines 505-506
LastMonth_NoRollover(today) ==
    IF today[2] = 1 THEN <<today[1], 12, 1>>
    ELSE <<today[1], today[2] - 1, 1>>

\* lines 505-508
LastMonth(today) ==
    IF today[2] = 1 THEN <<today[1] - 1, 12, 1>>
    ELSE <<today[1], today[2] - 1, 1>>

\* lines 516-520
monthly_attempts(u, today) ==
    {s \in scores :
        /\ s.user_id = u.id
        /\ ~DateTimeLT(s.attempt_date, Midnight(LastMonth(today)))
        /\ DateTimeLT(s.attempt_date, Midnight(FirstDay(today)))}

RECURSIVE SumOf(_, _)
SumOf(seq, field) ==
    IF seq = << >> THEN 0 ELSE Head(seq)[field] + SumOf(Tail(seq), field)

QuizById(id) == CHOOSE q \in quizzes : q.id = id

\* Rank with >= for the > of line 559
Rank_NotStrict(attempt) ==
    Cardinality({s \in scores : /\ s.quiz_id = attempt.quiz_id
                                /\ s.score >= attempt.score}) + 1

\* lines 555-560: count(Score.id) + 1 over the rows of the quiz with a
\* greater score, `or 1`
Rank(attempt) ==
    LET n == Cardinality({s \in scores : /\ s.quiz_id = attempt.quiz_id
                                         /\ s.score > attempt.score}) + 1
    IN  IF n = 0 THEN 1 ELSE n

\* line 562
TotalForQuiz(attempt) ==
    Cardinality({s \in scores : s.quiz_id = attempt.quiz_id})

\* UserRankings keeping the first entry of a title
RECURSIVE UserRankings_FirstWins(_, _)
UserRankings_FirstWins(attempts, acc) ==
    IF attempts = << >> THEN acc
    ELSE LET a == Head(attempts)
             entry == [rank |-> Rank(a), total |-> TotalForQuiz(a)]
         IN  UserRankings_FirstWins(Tail(attempts),
                                    acc @@ (QuizById(a.quiz_id).title :> entry))

\* lines 551-569: the dict keyed by quiz title, a later attempt overwriting
\* an earlier one of the same title
RECURSIVE UserRankings(_, _)
UserRankings(attempts, acc) ==
    IF attempts = << >> THEN acc
    ELSE LET a == Head(attempts)
             entry == [rank |-> Rank(a), total |-> TotalForQuiz(a)]
         IN  UserRankings(Tail(attempts),
                          (QuizById(a.quiz_id).title :> entry) @@ acc)

\* lines 526-579: what the report of one user holds
Report(u, attempts, today) ==
    [user |-> u.id,
     month |-> LastMonth(today),
     attempts |-> [i \in DOMAIN attempts |-> attempts[i].id],
     total_attempts |-> Len(attempts),
     avg_percentage |-> Percentage(SumOf(attempts, "score"),
                                   SumOf(attempts, "total_questions")),
     percentages |-> [i \in DOMAIN attempts |->
                         Percentage(attempts[i].score, attempts[i].total_questions)],
     ranks |-> [i \in DOMAIN attempts |->
                   [rank |-> Rank(attempts[i]), total |-> TotalForQuiz(attempts[i])]],
     rankings |-> UserRankings(attempts, << >>)]

ReportRaises(r) ==
    \/ Raises(r.avg_percentage)
    \/ \E i \in DOMAIN r.percentages : Raises(r.percentages[i])

\* line 591
ReportsSummary(U) == Cardinality(U)

-----------------------------------------------------------------------------
(* The databases the report task and the exports are checked on *)

NScores == 3

\* run days: in January, and on the first of March of a leap year
ReportDays == {<<2024, 1, 15>>, <<2024, 3, 1>>}

\* attempt dates on both sides of every month boundary of those runs: the
\* first instant of a day is 0, the last one is 1
Instants ==
    {<<2023, 11, 30, 1>>, <<2023, 12, 1, 0>>, <<2023, 12, 31, 1>>,
     <<2024, 1, 1, 0>>, <<2024, 1, 31, 1>>, <<2024, 2, 1, 0>>,
     <<2024, 2, 29, 1>>, <<2024, 3, 1, 0>>}

\* score and total_questions of a row
Marks == {<<0, 0>>, <<8, 10>>, <<10, 10>>}

\* the owner of Score row i: the rows go round the users
Owner(i) == UserId(((i - 1) % NUsers) + 1)

\* rows that differ in their dates
DatedScoreTables ==
    { {Score(i, 1, Owner(i), 8, 10, d[i]) : i \in 1..NScores} :
        d \in [1..NScores -> Instants] }

\* rows that differ in quiz and marks
MarkedScoreTables ==
    { {Score(i, f[i][1], Owner(i), f[i][2][1], f[i][2][2], <<2024, 2, 15, 1>>) :
          i \in 1..NScores} :
        f \in [1..NScores -> {1, 2} \X Marks] }

ScoreTables == DatedScoreTables \cup MarkedScoreTables

\* two quizzes, with one title or with two
ReportQuizTables ==
    { {Quiz(1, "Algebra", <<2024, 2, 10>>, TRUE),
       Quiz(2, t, <<2024, 2, 20>>, TRUE)} : t \in {"Algebra", "Geometry"} }

InitReportsWith(admin) ==
    /\ users = admin
          \cup {User(UserId(k), "user@example.com", "user", None) : k \in 1..NUsers}
    /\ prefs = {}
    /\ scores \in ScoreTables
    /\ quizzes \in ReportQuizTables
    /\ config \in {c \in TwilioConfigs : c.TWILIO_ACCOUNT_SID = None}
    /\ now \in [date : ReportDays, hour : {8}]
    /\ args = << >>
    /\ TaskIdle

InitReports == InitReportsWith(AdminRow)

-----------------------------------------------------------------------------
(* send_monthly_reports: the task *)

\* lines 494-511
StartMonthlyReports ==
    /\ task = "none" /\ pc = "idle"
    /\ users' = create_app(users)
    /\ todo' = ById({u \in users' : u.role = "user"})
    /\ task' = "send_monthly_reports"
    /\ pc' = "loop"
    /\ outcome' = [u \in {x.id : x \in users'} |-> "none"]
    /\ UNCHANGED << quizzes, scores, prefs, config, now, result, outbox, error,
                    reports, exportvars, notreports >>

\* lines 522-523
SkipNoAttempts ==
    /\ InLoop("send_monthly_reports")
    /\ LET u == Head(todo) IN
          /\ monthly_attempts(u, now.date) = {}
          /\ Done(u, "no_attempts")
    /\ UNCHANGED << dbvars, task, pc, result, outbox, error, reports, exportvars,
                    notreports >>

\* a loop body that absorbs the exception and goes on to the next user
SendMonthlyReport_Isolated ==
    /\ InLoop("send_monthly_reports")
    /\ LET u == Head(todo)
           attempts == ById(monthly_attempts(u, now.date))
           r == Report(u, attempts, now.date)
       IN  /\ attempts # << >>
           /\ IF ReportRaises(r)
              THEN /\ Done(u, "report_raised")
                   /\ UNCHANGED << outbox, reports, pc, error >>
              ELSE \/ /\ reports' = reports \cup {r}
                      /\ outbox' = outbox \cup {[user |-> u.id, channel |-> "report"]}
                      /\ Done(u, "report")
                      /\ UNCHANGED << pc, error >>
                   \/ /\ Done(u, "report_raised")
                      /\ UNCHANGED << outbox, reports, pc, error >>
    /\ UNCHANGED << dbvars, task, result, exportvars, notreports >>

\* lines 525-589: the report is computed and rendered, then mail.send hands
\* it over or raises; a raise anywhere reaches the handler of lines 593-596.
SendMonthlyReport ==
    /\ InLoop("send_monthly_reports")
    /\ LET u == Head(todo)
           attempts == ById(monthly_attempts(u, now.date))
           r == Report(u, attempts, now.date)
       IN  /\ attempts # << >>
           /\ IF ReportRaises(r)
              THEN /\ outcome' = [outcome EXCEPT ![u.id] = "report_raised"]
                   /\ pc' = "raised"
                   /\ error' = <<Exception("ZeroDivisionError", << >>)>>
                   /\ UNCHANGED << outbox, reports, todo >>
              ELSE \/ /\ reports' = reports \cup {r}
                      /\ outbox' = outbox \cup {[user |-> u.id, channel |-> "report"]}
                      /\ Done(u, "report")
                      /\ UNCHANGED << pc, error >>
                   \/ /\ outcome' = [outcome EXCEPT ![u.id] = "report_raised"]
                      /\ pc' = "raised"
                      /\ error' = <<Exception("SMTPException", << >>)>>
                      /\ UNCHANGED << outbox, reports, todo >>
    /\ UNCHANGED << dbvars, task, result, exportvars, notreports >>

\* line 591
ReturnMonthlyReports ==
    /\ task = "send_monthly_reports" /\ pc = "loop" /\ todo = << >>
    /\ result' = <<ReportsSummary({u \in users : u.role = "user"})>>
    /\ pc' = "returned"
    /\ UNCHANGED << dbvars, task, todo, outcome, outbox, error, reports, exportvars,
                    notreports >>

NextReports ==
    \/ StartMonthlyReports
    \/ SkipNoAttempts
    \/ SendMonthlyReport
    \/ ReturnMonthlyReports

SpecReports == InitReports /\ [][NextReports]_vars

-----------------------------------------------------------------------------
(* The export tasks (src/tasks.py 59-278): the computations *)

PASS_MARK == 60

\* lines 91, 166, 171: Score.score / Score.total_questions * 100 as the
\* database evaluates it: true division, and NULL for a division by zero
SqlPercentage(s) ==
    IF s.total_questions = 0 THEN None
    ELSE <<PyRatio(s.score, s.total_questions)>>

RECURSIVE SqlSum(_)
SqlSum(rows) ==
    IF rows = {} THEN <<0, 1>>
    ELSE LET r == CHOOSE x \in rows : TRUE
         IN  FracAdd(SqlPercentage(r)[1], SqlSum(rows \ {r}))

\* func.avg: the mean of the values that are not NULL, NULL when there is none
SqlAvg(rows) ==
    LET vals == {r \in rows : SqlPercentage(r) # None}
    IN  IF vals = {} THEN None
        ELSE LET t == SqlSum(vals) IN << <<t[1], t[2] * Cardinality(vals)>> >>

\* func.max: the greatest value that is not NULL, NULL when there is none
SqlMax(rows) ==
    LET vals == {r \in rows : SqlPercentage(r) # None}
    IN  IF vals = {} THEN None
        ELSE SqlPercentage(CHOOSE r \in vals : \A x \in vals :
                 ~FracLT(SqlPercentage(r)[1], SqlPercentage(x)[1]))

\* lines 93, 168, 173: float(q) if q else 0
FloatOrZero(q) == IF q # None /\ q[1][1] # 0 THEN q[1] ELSE <<0, 1>>

\* lines 88-93 and 161-168
avg_score(rows) ==
    IF Cardinality(rows) > 0 THEN FloatOrZero(SqlAvg(rows)) ELSE <<0, 1>>

\* lines 162-173
highest_score(rows) ==
    IF Cardinality(rows) > 0 THEN FloatOrZero(SqlMax(rows)) ELSE <<0, 1>>

Header == [kind |-> "header"]

\* lines 95-105
UserRow(u) ==
    LET mine == {s \in scores : s.user_id = u.id}
    IN  [kind |-> "user", id |-> u.id, quizzes_taken |-> Cardinality(mine),
         avg_score |-> avg_score(mine)]

\* lines 175-186
QuizRow(q) ==
    LET rows == {s \in scores : s.quiz_id = q.id}
    IN  [kind |-> "quiz", id |-> q.id, total_attempts |-> Cardinality(rows),
         avg_score |-> avg_score(rows), highest_score |-> highest_score(rows)]

\* lines 244-257
AttemptRow(a) ==
    LET percentage == Percentage(a.score, a.total_questions)
    IN  [kind |-> "attempt", id |-> a.id, quiz_id |-> a.quiz_id,
         score |-> a.score, total_questions |-> a.total_questions,
         percentage |-> percentage,
         pass |-> ~Raises(percentage) /\ ~FracLT(percentage, <<PASS_MARK, 1>>)]

\* lines 112-122, 193-203, 264-274: the file and the descriptor returned
File(prefix, rows) == [filename |-> prefix, rows |-> rows]

-----------------------------------------------------------------------------
(* The export tasks: the databases and the tasks *)

\* the ids export_user_attempts_csv is called with: the admin, the users and
\* an id no row has
ExportArgs == 1..(NUsers + 2)

InitExportsWith(admin) ==
    /\ users = admin
          \cup {User(UserId(k), "user@example.com", "user", None) : k \in 1..NUsers}
    /\ prefs = {}
    /\ scores \in MarkedScoreTables
    /\ quizzes \in ReportQuizTables
    /\ config \in {c \in TwilioConfigs : c.TWILIO_ACCOUNT_SID = None}
    /\ now = [date |-> <<2024, 3, 1>>, hour |-> 8]
    /\ args \in [user_id : ExportArgs]
    /\ TaskIdle

InitExports == InitExportsWith(AdminRow)

Exporting == task \in {"export_users_csv", "export_quizzes_csv",
                       "export_user_attempts_csv"}

\* the handler marking the state and then swallowing the exception
Fail_NotReraised(exc) ==
    /\ task_state' = <<[state |-> "FAILURE", meta |-> [error |-> exc.message]]>>
    /\ error' = None
    /\ pc' = "returned"

\* lines 124-126, 205-207, 276-278
Fail(exc) ==
    /\ task_state' = <<[state |-> "FAILURE", meta |-> [error |-> exc.message]]>>
    /\ error' = <<exc>>
    /\ pc' = "raised"

\* lines 61-79
StartExportUsers ==
    /\ task = "none" /\ pc = "idle"
    /\ users' = create_app(users)
    /\ task' = "export_users_csv"
    /\ pc' = "loop"
    /\ output' = <<Header>>
    /\ todo' = ById({u \in users' : u.role = "user"})
    /\ UNCHANGED << quizzes, scores, prefs, config, now, result, outcome, outbox,
                    error, reports, files, task_state, args, notreports >>

\* lines 82-105
ExportUserRow ==
    /\ task = "export_users_csv" /\ pc = "loop" /\ todo # << >>
    /\ output' = Append(output, UserRow(Head(todo)))
    /\ todo' = Tail(todo)
    /\ UNCHANGED << dbvars, task, pc, result, outcome, outbox, error, reports,
                    files, task_state, args, notreports >>

\* lines 131-149
StartExportQuizzes ==
    /\ task = "none" /\ pc = "idle"
    /\ users' = create_app(users)
    /\ task' = "export_quizzes_csv"
    /\ pc' = "loop"
    /\ output' = <<Header>>
    /\ todo' = ById(quizzes)
    /\ UNCHANGED << quizzes, scores, prefs, config, now, result, outcome, outbox,
                    error, reports, files, task_state, args, notreports >>

\* lines 152-186
ExportQuizRow ==
    /\ task = "export_quizzes_csv" /\ pc = "loop" /\ todo # << >>
    /\ output' = Append(output, QuizRow(Head(todo)))
    /\ todo' = Tail(todo)
    /\ UNCHANGED << dbvars, task, pc, result, outcome, outbox, error, reports,
                    files, task_state, args, notreports >>

\* lines 212-236, a user with the id exists
StartExportUserAttempts ==
    /\ task = "none" /\ pc = "idle"
    /\ DOMAIN args = {"user_id"}
    /\ users' = create_app(users)
    /\ \E u \in users' : u.id = args.user_id
    /\ task' = "export_user_attempts_csv"
    /\ pc' = "loop"
    /\ output' = <<Header>>
    /\ todo' = ById({s \in scores : s.user_id = args.user_id})
    /\ UNCHANGED << quizzes, scores, prefs, config, now, result, outcome, outbox,
                    error, reports, files, task_state, args, notreports >>

\* lines 212-222 and 276-278, no user has the id
ExportUserNotFound ==
    /\ task = "none" /\ pc = "idle"
    /\ DOMAIN args = {"user_id"}
    /\ users' = create_app(users)
    /\ ~\E u \in users' : u.id = args.user_id
    /\ task' = "export_user_attempts_csv"
    /\ Fail(Exception("ValueError",
                      <<"User with ID", args.user_id, "not found">>))
    /\ UNCHANGED << quizzes, scores, prefs, config, now, todo, result, outcome,
                    outbox, reports, files, output, args, notreports >>

\* lines 239-257
ExportAttemptRow ==
    /\ task = "export_user_attempts_csv" /\ pc = "loop" /\ todo # << >>
    /\ LET row == AttemptRow(Head(todo)) IN
          IF Raises(row.percentage)
          THEN /\ Fail(Exception("ZeroDivisionError", <<"division by zero">>))
               /\ UNCHANGED << output, todo >>
          ELSE /\ output' = Append(output, row)
               /\ todo' = Tail(todo)
               /\ UNCHANGED << pc, error, task_state >>
    /\ UNCHANGED << dbvars, task, result, outcome, outbox, reports, files,
                    args, notreports >>

\* lines 107-122, 188-203, 259-274
FinishExport ==
    /\ Exporting /\ pc = "loop" /\ todo = << >>
    /\ files' = files \cup {File(task, output)}
    /\ result' = <<File(task, output).filename>>
    /\ pc' = "returned"
    /\ UNCHANGED << dbvars, task, todo, outcome, outbox, error, reports,
                    task_state, output, args, notreports >>

NextExports ==
    \/ StartExportUsers
    \/ ExportUserRow
    \/ StartExportQuizzes
    \/ ExportQuizRow
    \/ StartExportUserAttempts
    \/ ExportUserNotFound
    \/ ExportAttemptRow
    \/ FinishExport

SpecExports == InitExports /\ [][NextExports]_vars

-----------------------------------------------------------------------------
(* send_gchat_webhook and send_sms_notification called on their own, inside
   an application context *)

\* what requests.post can do: a response with some status, or an exception
AllResponses ==
    {None, <<HTTP_OK>>, <<201>>, <<204>>, <<301>>, <<400>>, <<404>>, <<500>>}

WebhookArgs ==
    [webhook_url : {None, <<"">>, <<WEBHOOK>>},
     message_text : {<<"Hi">>},
     title : {None, <<"">>, <<"Quiz Master Daily Reminder">>},
     sections : {None, << << >> >>, << <<"New Quizzes Available">> >>}]

\* app.config with each credential unset, empty or set
ChannelConfigs ==
    [TWILIO_ACCOUNT_SID : {None, <<"">>, <<SID>>},
     TWILIO_AUTH_TOKEN : {None, <<"">>, <<SID>>},
     TWILIO_PHONE_NUMBER : {None, <<"">>, <<SID>>}]

SmsArgs == [phone_number : {<<PHONE>>}, message : {<<"Hi">>}]

InitChannels ==
    /\ users = {User(1, ADMIN_USERNAME, "admin", None)}
    /\ prefs = {}
    /\ scores = {}
    /\ quizzes = {}
    /\ now = [date |-> Today, hour |-> DEFAULT_REMINDER_TIME]
    /\ \/ /\ args \in WebhookArgs
          /\ config \in {c \in TwilioConfigs : c.TWILIO_ACCOUNT_SID = None}
       \/ /\ args \in SmsArgs
          /\ config \in ChannelConfigs
    /\ TaskIdle

\* lines 281-318: one call, from its arguments to its return value
CallGchatWebhook ==
    /\ task = "none" /\ pc = "idle"
    /\ args \in WebhookArgs
    /\ \E response \in AllResponses :
          LET r == send_gchat_webhook(args.webhook_url, args.message_text,
                                      args.title, args.sections, response)
          IN  /\ posts' = posts + r.posts
              /\ webhook_call' = << [webhook_url |-> args.webhook_url,
                                     payload |-> r.payload,
                                     response |-> IF r.posts = 0 THEN None
                                                  ELSE response,
                                     returned |-> r.ok] >>
              /\ result' = <<r.ok>>
    /\ task' = "send_gchat_webhook"
    /\ pc' = "returned"
    /\ UNCHANGED << dbvars, todo, upcoming_quizzes, reminders_sent, outcome,
                    outbox, sms_call, error, reports, files, task_state,
                    output, args >>

\* lines 321-359: one call, from its arguments to its return value
CallSmsNotification ==
    /\ task = "none" /\ pc = "idle"
    /\ args \in SmsArgs
    /\ \E provider \in Provider :
          LET r == send_sms_notification(config, provider)
          IN  /\ sms_call' = << [to |-> args.phone_number,
                                 provider |-> IF Credentials(config)
                                              THEN <<provider>> ELSE None,
                                 sends |-> r.sends,
                                 returned |-> r.ok] >>
              /\ result' = <<r.ok>>
    /\ task' = "send_sms_notification"
    /\ pc' = "returned"
    /\ UNCHANGED << dbvars, todo, upcoming_quizzes, reminders_sent, outcome,
                    outbox, posts, webhook_call, error, reports, files,
                    task_state, output, args >>

NextChannels ==
    \/ CallGchatWebhook
    \/ CallSmsNotification

SpecChannels == InitChannels /\ [][NextChannels]_vars

-----------------------------------------------------------------------------
(* Every job, over a database that has the admin row or does not have it yet *)

InitJobs ==
    \E admin \in {{}, AdminRow} :
        \/ InitRemindersWith(admin)
        \/ InitReportsWith(admin)
        \/ InitExportsWith(admin)

NextJobs ==
    \/ NextReminders
    \/ NextReports
    \/ NextExports

SpecJobs == InitJobs /\ [][NextJobs]_vars

-----------------------------------------------------------------------------
(* The periodic schedule (src/tasks.py 31-43) driving send_daily_reminders:
   the clock goes round the hours of a day on which the stored quizzes are
   still to come, and celery beat starts the task at the scheduled hour. *)

\* crontab(hour=18, minute=0)
DAILY_REMINDERS_HOUR == 18

InitSchedule == InitReminders /\ now.hour = 0

\* lines 33-36: beat sends tasks.send_daily_reminders at minute 0 of the hour
BeatDailyReminders ==
    /\ now.hour = DAILY_REMINDERS_HOUR
    /\ StartDailyReminders

\* the hour passes; a run that was due in it has started and ended, and the
\* worker is idle again
Tick ==
    /\ pc \in {"idle", "returned", "raised"}
    /\ now.hour = DAILY_REMINDERS_HOUR => pc # "idle"
    /\ now' = [now EXCEPT !.hour = (@ + 1) % 24]
    /\ task' = "none"
    /\ pc' = "idle"
    /\ todo' = << >>
    /\ upcoming_quizzes' = {}
    /\ reminders_sent' = 0
    /\ result' = None
    /\ outcome' = [u \in DOMAIN outcome |-> "none"]
    /\ posts' = 0
    /\ webhook_call' = None
    /\ sms_call' = None
    /\ error' = None
    /\ UNCHANGED << users, quizzes, scores, prefs, config, outbox, notreminders >>

NextSchedule ==
    \/ Tick
    \/ BeatDailyReminders
    \/ SkipNoNewQuizzes
    \/ SkipWrongHour
    \/ DispatchEmail
    \/ DispatchGchat
    \/ DispatchSms
    \/ NoDispatch
    \/ ReturnDailyReminders

\* time passes and the worker runs what it was sent
SpecSchedule == InitSchedule /\ [][NextSchedule]_vars /\ WF_vars(NextSchedule)

-----------------------------------------------------------------------------
(* Properties of send_daily_reminders *)

Reminding == task = "send_daily_reminders"

\* the outcomes in which a message left for the user
Notified == {"email", "gchat", "sms"}
\* the outcomes in which a delivery was attempted and failed
FailedDelivery == {"email_raised", "gchat_failed", "sms_failed"}

Processed(u) == outcome[u.id] # "none"

\* the quizzes a user may still take: active, dated today or later, no Score
Unattempted(u) ==
    {q \in quizzes :
        /\ q.is_active
        /\ DateGE(q.date_of_quiz, now.date)
        /\ ~\E s \in scores : s.user_id = u.id /\ s.quiz_id = q.id}

\* the hour stored for a user: the column, 18 without a row or a value
StoredHour(u) ==
    IF \E p \in prefs : p.user_id = u.id /\ p.reminder_time # None
    THEN (CHOOSE p \in prefs : p.user_id = u.id).reminder_time[1]
    ELSE DEFAULT_REMINDER_TIME

\* C1: a failed delivery on any channel (email, gchat, sms) never aborts the
\* run: the task does not end by raising, the loop goes on to the next user.
C1_FailedDeliveryNeverAborts ==
    Reminding =>
        \A u \in users :
            outcome[u.id] \in FailedDelivery => pc # "raised"

\* C2: the count the task returns is the number of users notified in the
\* run, one per user whose email was handed over, whose webhook POST returned
\* 200 or whose SMS send returned true; skipped users and failed gchat/sms
\* deliveries are not counted.
C2_CountEqualsNotified ==
    Reminding =>
        /\ reminders_sent = Cardinality({u \in users : outcome[u.id] \in Notified})
        /\ reminders_sent = Cardinality(outbox)
        /\ \A m \in outbox : outcome[m.user] = m.channel
        /\ pc = "returned" => result = <<Cardinality(outbox)>>

C2_Witness ==
    /\ Reminding /\ pc = "returned" /\ result = <<1>>
    /\ \E u \in users : outcome[u.id] \in {"gchat_failed", "sms_failed"}

\* C3: a user with a Score for every upcoming quiz is never notified and
\* never counted, whatever the hour and the channel.
C3_NothingNewNothingSent ==
    Reminding =>
        \A u \in users :
            \/ /\ outcome[u.id] \in {"none", "no_new_quizzes"}
               /\ ~\E m \in outbox : m.user = u.id
            \/ Unattempted(u) # {}

C3_Witness ==
    /\ Reminding /\ pc = "returned" /\ result = <<1>>
    /\ \E u \in users :
          /\ Unattempted(u) = {}
          /\ \E s \in scores : s.user_id = u.id
          /\ notification_type(u) = "sms"
          /\ now.hour = reminder_time(u)
          /\ outcome[u.id] = "no_new_quizzes"

\* C4: a user is notified only in the hour stored as reminder_time, for every
\* stored hour 0..23 (18 when there is no row or no value).
C4_NotifiedOnlyInStoredHour ==
    Reminding =>
        \A u \in users :
            outcome[u.id] \in Notified \cup FailedDelivery =>
                now.hour = StoredHour(u)

\* C5 as claimed: new_quizzes are all the active quizzes dated today or later
\* that the user has no Score for, so that a user with such a quiz is not
\* skipped for having no new quizzes.
C5_NewQuizzesAreAllUnattempted ==
    Reminding =>
        \A u \in inactive_users(users, now) :
            /\ new_quizzes(u) = Unattempted(u)
            /\ outcome[u.id] = "no_new_quizzes" => Unattempted(u) = {}

\* the active quizzes dated today or later
Eligible == {q \in quizzes : q.is_active /\ DateGE(q.date_of_quiz, now.date)}

\* C5, amended: the task fetches the REMINDER_LIMIT earliest active quizzes
\* dated today or later (all of them when there are no more than that), and
\* for each user the loop reaches new_quizzes are the fetched quizzes the
\* user has no Score for; the user is skipped for having no new quizzes
\* exactly when that set is empty.
C5_NewQuizzesAmongFetched ==
    Reminding =>
        LET eligible == Eligible IN
        /\ upcoming_quizzes \subseteq eligible
        /\ Cardinality(upcoming_quizzes) = Min(REMINDER_LIMIT, Cardinality(eligible))
        /\ \A q \in upcoming_quizzes : \A r \in eligible \ upcoming_quizzes :
              ~DateLT(r.date_of_quiz, q.date_of_quiz)
        /\ \A u \in users :
              Processed(u) =>
                 LET fresh == Unattempted(u) \cap upcoming_quizzes IN
                 /\ new_quizzes(u) = fresh
                 /\ outcome[u.id] = "no_new_quizzes" <=> fresh = {}

C5_Witness ==
    /\ Reminding /\ pc = "returned"
    /\ Cardinality(Eligible) > REMINDER_LIMIT
    /\ \E u \in users :
          /\ outcome[u.id] = "no_new_quizzes"
          /\ Unattempted(u) # {}
    /\ \E u \in users : outcome[u.id] \in Notified

-----------------------------------------------------------------------------
(* Properties of send_monthly_reports *)

Reporting == task = "send_monthly_reports"

\* months counted from year 0
MonthIndex(d) == d[1] * 12 + d[2]

\* the Score rows of a user dated in the calendar month before the run's
PriorMonthRows(uid) ==
    {s \in scores : /\ s.user_id = uid
                    /\ MonthIndex(s.attempt_date) = MonthIndex(now.date) - 1}

Range(f) == {f[i] : i \in DOMAIN f}

\* C6: a user with no Score row in the prior month gets no report and is not
\* in the count of users the run says it sent a report to.
C6_CountIsReportsSent ==
    Reporting =>
        /\ \A u \in users :
              PriorMonthRows(u.id) = {} => ~\E m \in outbox : m.user = u.id
        /\ pc = "returned" =>
              result = <<Cardinality({u \in users : /\ u.role = "user"
                                                    /\ PriorMonthRows(u.id) # {}})>>

\* C7: a report covers exactly the attempts dated in the calendar month
\* before the run's, from its first instant to its last; a user is skipped
\* exactly when there is none; a January run reports on December of the
\* year before.
C7_ReportCoversPriorMonth ==
    Reporting =>
        /\ \A r \in reports :
              /\ Range(r.attempts) = {s.id : s \in PriorMonthRows(r.user)}
              /\ MonthIndex(r.month) = MonthIndex(now.date) - 1
              /\ now.date[2] = 1 => r.month = <<now.date[1] - 1, 12, 1>>
        /\ \A u \in users :
              /\ outcome[u.id] = "no_attempts" => PriorMonthRows(u.id) = {}
              /\ outcome[u.id] \in {"report", "report_raised"}
                    => PriorMonthRows(u.id) # {}

C7_Witness ==
    /\ Reporting /\ pc = "returned" /\ now.date[2] = 1
    /\ \E r \in reports : \E s1, s2 \in scores :
          /\ s1.user_id = r.user /\ s2.user_id = r.user
          /\ s1.attempt_date = <<2023, 12, 1, 0>> /\ s1.id \in Range(r.attempts)
          /\ s2.attempt_date = <<2024, 1, 1, 0>> /\ s2.id \notin Range(r.attempts)

ScoreById(id) == CHOOSE s \in scores : s.id = id

\* the scores of the rows of a quiz, as a bag
ScoresOfQuiz(q, v) == Cardinality({s \in scores : s.quiz_id = q /\ s.score = v})

\* C8: the rank of an attempt is 1 plus the number of Score rows of its quiz
\* with a strictly greater score: the best attempt of a quiz has rank 1,
\* attempts of equal score share their rank, and in a quiz with the scores
\* 10, 8, 8 the ranks are 1, 2, 2.
C8_RankCountsStrictlyBetter ==
    Reporting =>
        \A r \in reports : \A i \in DOMAIN r.attempts :
            LET a == ScoreById(r.attempts[i])
                rk == r.ranks[i].rank
                better == {s \in scores : s.quiz_id = a.quiz_id /\ s.score > a.score}
            IN  /\ rk = 1 + Cardinality(better)
                /\ better = {} => rk = 1
                /\ \A r2 \in reports : \A j \in DOMAIN r2.attempts :
                      LET b == ScoreById(r2.attempts[j]) IN
                      (b.quiz_id = a.quiz_id /\ b.score = a.score)
                          => r2.ranks[j].rank = rk
                /\ ( /\ r.ranks[i].total = 3
                     /\ ScoresOfQuiz(a.quiz_id, 10) = 1
                     /\ ScoresOfQuiz(a.quiz_id, 8) = 2 )
                   => rk = (IF a.score = 10 THEN 1 ELSE 2)

C8_Witness ==
    /\ Reporting /\ pc = "returned"
    /\ ScoresOfQuiz(1, 10) = 1 /\ ScoresOfQuiz(1, 8) = 2
    /\ Cardinality({s \in scores : s.quiz_id = 1}) = 3
    /\ Cardinality({p \in {<<r, i>> : r \in reports, i \in 1..NScores} :
                       /\ p[2] \in DOMAIN p[1].attempts
                       /\ ScoreById(p[1].attempts[p[2]]).score = 8
                       /\ p[1].ranks[p[2]].rank = 2}) = 2

-----------------------------------------------------------------------------
(* Properties of the percentages *)

\* the percentage of a Score row as the data model defines it
RowPercentage(s) ==
    IF s.total_questions = 0 THEN <<0, 1>>
    ELSE <<s.score * 100, s.total_questions>>

RECURSIVE SumOfPercentages(_)
SumOfPercentages(rows) ==
    IF rows = {} THEN <<0, 1>>
    ELSE LET r == CHOOSE x \in rows : TRUE
         IN  FracAdd(RowPercentage(r), SumOfPercentages(rows \ {r}))

MeanPercentage(rows) ==
    IF rows = {} THEN <<0, 1>>
    ELSE LET t == SumOfPercentages(rows) IN <<t[1], t[2] * Cardinality(rows)>>

\* C9: every percentage an export derives from Score rows takes a row with
\* total_questions = 0 as 0 and any other row as score/total_questions*100:
\* the per-attempt percentage, and the average and highest score of a user's
\* or a quiz's rows; and no such row makes the task fail.
C9_ZeroQuestionsCountAsZero ==
    Exporting =>
        /\ \A i \in DOMAIN output :
              LET row == output[i] IN
              /\ row.kind = "attempt" =>
                    FracEq(row.percentage, RowPercentage(ScoreById(row.id)))
              /\ row.kind = "user" =>
                    FracEq(row.avg_score,
                           MeanPercentage({s \in scores : s.user_id = row.id}))
              /\ row.kind = "quiz" =>
                    LET rows == {s \in scores : s.quiz_id = row.id} IN
                    /\ FracEq(row.avg_score, MeanPercentage(rows))
                    /\ \A s \in rows : ~FracLT(row.highest_score, RowPercentage(s))
        /\ error # None => error[1].type # "ZeroDivisionError"

-----------------------------------------------------------------------------
(* Properties of send_gchat_webhook *)

\* C10: send_gchat_webhook never raises; without a webhook_url (None or "")
\* it returns False and makes no network call; otherwise it makes exactly
\* one POST and returns True exactly when the response status is 200, False
\* on any other status and on a transport exception.
C10_WebhookTrueOnlyOn200 ==
    task = "send_gchat_webhook" =>
        /\ pc = "returned" /\ error = None
        /\ (args.webhook_url = None \/ args.webhook_url = <<"">>)
              => result = <<FALSE>> /\ posts = 0
        /\ (args.webhook_url # None /\ args.webhook_url # <<"">>)
              => /\ posts = 1
                 /\ webhook_call[1].payload # None
                 /\ result = <<webhook_call[1].response = <<200>> >>

C10_Witness ==
    /\ task = "send_gchat_webhook" /\ pc = "returned"
    /\ posts = 1
    /\ webhook_call[1].response = <<204>>
    /\ result = <<FALSE>>

-----------------------------------------------------------------------------
(* Properties of send_sms_notification *)

\* C11: send_sms_notification never propagates an exception; if any of the
\* three credentials (account id, auth token, sender number) is unset it
\* returns False without attempting a send; otherwise it returns True
\* exactly when the provider's send call completes without raising, and
\* False when it raises.
C11_SmsTrueOnlyWhenSent ==
    task = "send_sms_notification" =>
        /\ pc = "returned" /\ error = None
        /\ (\E k \in DOMAIN config : config[k] \in {None, <<"">>})
              => result = <<FALSE>> /\ sms_call[1].sends = 0
        /\ (\A k \in DOMAIN config : config[k] \notin {None, <<"">>})
              => result = <<sms_call[1].provider = <<"sent">> >>

C11_Witness ==
    /\ task = "send_sms_notification" /\ pc = "returned"
    /\ config.TWILIO_ACCOUNT_SID = <<SID>>
    /\ config.TWILIO_PHONE_NUMBER = None
    /\ result = <<FALSE>>
    /\ sms_call[1].sends = 0

-----------------------------------------------------------------------------
(* Properties of the export tasks *)

\* C12: export_user_attempts_csv called with a user id that matches no User
\* ends in the failed state carrying a 'not found' error message that names
\* the id, re-raises the error to the job runner, and writes no file, neither
\* complete nor partial.
C12_UnknownUserFailsWithoutFile ==
    (task = "export_user_attempts_csv" /\ ~\E u \in users : u.id = args.user_id)
        => /\ pc = "raised"
           /\ error # None
           /\ error[1].message = <<"User with ID", args.user_id, "not found">>
           /\ task_state # None
           /\ task_state[1].state = "FAILURE"
           /\ task_state[1].meta.error = error[1].message
           /\ result = None
           /\ files = {}
           /\ output = << >>

C12_Witness ==
    /\ task = "export_user_attempts_csv"
    /\ args.user_id \notin {u.id : u \in users}
    /\ pc = "raised"
    /\ task_state # None
    /\ files = {}

-----------------------------------------------------------------------------
(* Properties of every job *)

\* C13: no invocation of send_daily_reminders, send_monthly_reports or an
\* export job changes the stored User, Quiz or Score rows, the building of
\* the job's application context included.
C13_JobsLeaveRowsAlone ==
    [][users' = users /\ quizzes' = quizzes /\ scores' = scores]_vars

-----------------------------------------------------------------------------
(* Properties of send_daily_reminders: destinations and opt-in *)

\* the resolved channel is gchat without a webhook_url or sms without a
\* phone_number
Undeliverable(u) ==
    \E p \in prefs :
        /\ p.user_id = u.id
        /\ \/ p.notification_type = <<"gchat">> /\ p.webhook_url \in {None, <<"">>}
           \/ p.notification_type = <<"sms">> /\ p.phone_number \in {None, <<"">>}

\* C14: a user whose resolved channel is gchat with no webhook_url, or sms
\* with no phone_number, gets no notification on any channel, is not
\* counted, raises no error, and does not stop later users from being
\* processed.
C14_MissingDestinationIsSkipped ==
    Reminding =>
        /\ \A u \in users :
              Undeliverable(u) =>
                 /\ outcome[u.id] \in {"none", "no_new_quizzes", "wrong_hour",
                                       "no_destination"}
                 /\ ~\E m \in outbox : m.user = u.id
        /\ reminders_sent <=
              Cardinality({u \in users : Processed(u) /\ ~Undeliverable(u)})
        /\ pc = "raised" =>
              \E v \in users : ~Undeliverable(v) /\ outcome[v.id] = "email_raised"
        /\ pc = "returned" =>
              \A v \in inactive_users(users, now) : Processed(v)
        /\ (pc = "loop" /\ todo = << >>) =>
              \A v \in inactive_users(users, now) : Processed(v)

C14_Witness ==
    /\ Reminding /\ pc = "returned"
    /\ \E u, v \in users :
          /\ u.id < v.id
          /\ Undeliverable(u) /\ outcome[u.id] = "no_destination"
          /\ outcome[v.id] \in Notified
          /\ result = <<1>>

-----------------------------------------------------------------------------
(* Properties of send_monthly_reports: failures *)

\* C15: once processing of a user u raises, the run ends by raising to the
\* caller: no user after u in iteration order is sent a report in that run,
\* no success summary is returned, and the reports already sent to the users
\* before u are still sent.
C15_RaiseAbortsTheRun ==
    Reporting =>
        /\ \A u \in users :
              outcome[u.id] = "report_raised" =>
                 /\ pc = "raised" /\ error # None
                 /\ result = None
                 /\ ~\E m \in outbox : m.user = u.id
                 /\ \A v \in users :
                       v.id > u.id =>
                          /\ outcome[v.id] = "none"
                          /\ ~\E m \in outbox : m.user = v.id
                          /\ ~\E r \in reports : r.user = v.id
        /\ pc = "raised" => \E u \in users : outcome[u.id] = "report_raised"
        /\ \A v \in users :
              outcome[v.id] = "report" =>
                 /\ [user |-> v.id, channel |-> "report"] \in outbox
                 /\ \E r \in reports : r.user = v.id

C15_Witness ==
    /\ Reporting /\ pc = "raised"
    /\ \E u, v \in users :
          /\ u.id < v.id
          /\ outcome[u.id] = "report_raised"
          /\ PriorMonthRows(v.id) # {}
          /\ outcome[v.id] = "none"

-----------------------------------------------------------------------------
(* Properties of the periodic schedule *)

\* the k-th ordinary user is inactive, every fetch holds a quiz the user has
\* no Score for, and the resolved channel has its destination
Wanting(k) ==
    \E u \in inactive_users(users, now) :
        /\ u.id = UserId(k)
        /\ \A S \in UpcomingQuizzes(quizzes, now.date) :
              \E q \in S : q.id \notin user_quiz_ids(u)
        /\ ~Undeliverable(u)

Reminded(k) == \E m \in outbox : m.user = UserId(k)

DeliveryFailed == \E u \in users : outcome[u.id] \in FailedDelivery

\* C16: under the configured schedule every preferred reminder hour is
\* honoured: an inactive user with a new quiz, a deliverable channel and
\* reminder_time = h, for any h in 0..23, is eventually sent a reminder,
\* unless a delivery fails.
C16_EveryHourIsHonoured ==
    \A k \in 1..NUsers : Wanting(k) ~> (Reminded(k) \/ DeliveryFailed)

-----------------------------------------------------------------------------
(* Properties of the opt-in flags *)

OptedOut(u) ==
    \E p \in prefs : p.user_id = u.id /\ ~p.receive_daily_reminders

\* C17: a user whose UserPreference has receive_daily_reminders = false is
\* never sent a daily reminder by send_daily_reminders; a user with no
\* preference record is treated as opted in.
C17_OptOutIsHonoured ==
    Reminding =>
        \A u \in users :
            OptedOut(u) =>
               /\ outcome[u.id] \notin Notified \cup FailedDelivery
               /\ ~\E m \in outbox : m.user = u.id

-----------------------------------------------------------------------------
(* Properties of the rankings mapping *)

TitleOf(score_id) == QuizById(ScoreById(score_id).quiz_id).title

\* rank and total of a Score row, counted over the rows of its quiz
Standing(score_id) ==
    LET a == ScoreById(score_id)
        rows == {s \in scores : s.quiz_id = a.quiz_id}
    IN  [rank |-> 1 + Cardinality({s \in rows : s.score > a.score}),
         total |-> Cardinality(rows)]

\* C18: the rankings mapping of a report has exactly one entry per distinct
\* quiz title among the user's attempts of the month; among several attempts
\* on quizzes sharing a title (one quiz attempted again, or two quizzes of
\* one title) the entry holds the rank and total of the last one in
\* iteration order; every entry satisfies 1 <= rank <= total.
C18_RankingsKeyedByTitle ==
    Reporting =>
        \A r \in reports :
            /\ DOMAIN r.rankings = {TitleOf(r.attempts[i]) : i \in DOMAIN r.attempts}
            /\ \A t \in DOMAIN r.rankings :
                  LET same == {i \in DOMAIN r.attempts : TitleOf(r.attempts[i]) = t}
                      last == CHOOSE i \in same : \A j \in same : j <= i
                  IN  /\ r.rankings[t] = Standing(r.attempts[last])
                      /\ 1 <= r.rankings[t].rank
                      /\ r.rankings[t].rank <= r.rankings[t].total

C18_Witness ==
    /\ Reporting
    /\ \E r \in reports :
          /\ Len(r.attempts) = 2
          /\ TitleOf(r.attempts[1]) = TitleOf(r.attempts[2])
          /\ ScoreById(r.attempts[1]).quiz_id # ScoreById(r.attempts[2]).quiz_id
          /\ Standing(r.attempts[1]) # Standing(r.attempts[2])
          /\ r.rankings = ("Algebra" :> Standing(r.attempts[2]))

====
